---- MODULE Spec2Model ----
(***************************************************************************)
(* Engineering calculator: the input state machine of Calculator.tsx and   *)
(* the history mutation/query of convex/calculator.ts.                     *)
(*                                                                         *)
(* Text is a sequence of one-character strings.  The multi-byte symbols of *)
(* the source are written in ASCII: "*" is the multiply sign, "/" the      *)
(* divide sign, "x2"/"x3" the square and cube keys, "pi" the pi key.       *)
(*                                                                         *)
(* A JavaScript number is a record [k, neg, m, e]:                         *)
(*   k = "fin"  the double whose shortest decimal form is (-1)^neg*m/10^e  *)
(*              (m has no trailing zero when e > 0; zero keeps its sign);  *)
(*   k = "nan", "inf" (with neg), "pi", "E" (Math.PI, Math.E, with neg);   *)
(*   k = "out"  a double outside the modelled domain (too many digits, or  *)
(*              the result of an operation whose rounding is not modelled) *)
(*              : a step that would compute one is not explored;           *)
(*   k = "null" the null of number | null.                                 *)
(***************************************************************************)
EXTENDS Integers, Sequences, FiniteSets, TLC

\* ------------------------------------------------------------------ bounds
MaxMantissa == 9999
MaxScale == 2
MaxDisplayLen == 5
MaxKeys == 3
MaxScript == 6
MaxEntry == 6
MaxOperand == 2
MaxCalls == 2
\* documents stored by earlier sessions (initial state of SpecStored)
EarlierRows == 28

\* --------------------------------------------------------------- numbers
Num(k, neg, m, e) == [k |-> k, neg |-> neg, m |-> m, e |-> e]
Null == Num("null", FALSE, 0, 0)
Out == Num("out", FALSE, 0, 0)
NaN == Num("nan", FALSE, 0, 0)
Inf(neg) == Num("inf", neg, 0, 0)
MathPI == Num("pi", FALSE, 0, 0)
MathE == Num("E", FALSE, 0, 0)
Zero == Num("fin", FALSE, 0, 0)
One == Num("fin", FALSE, 1, 0)

RECURSIVE Pow10(_)
Pow10(n) == IF n = 0 THEN 1 ELSE 10 * Pow10(n - 1)

RECURSIVE Pow5(_)
Pow5(n) == IF n = 0 THEN 1 ELSE 5 * Pow5(n - 1)

RECURSIVE Gcd(_, _)
Gcd(a, b) == IF b = 0 THEN a ELSE Gcd(b, a % b)

\* The finite double with decimal form (-1)^neg * m / 10^e, normalised; Out
\* when it leaves the modelled domain.
RECURSIVE Fin(_, _, _)
Fin(neg, m, e) ==
    IF e > 0 /\ m % 10 = 0 THEN Fin(neg, m \div 10, e - 1)
    ELSE IF m > MaxMantissa \/ e > MaxScale THEN Out
    ELSE Num("fin", neg, m, e)

IsZero(x) == x.k = "fin" /\ x.m = 0
\* exactly representable in binary: the denominator of m/10^e is a power of 2
Dyadic(x) == x.k = "fin" /\ x.m % Pow5(x.e) = 0
IsInteger(x) == x.k = "fin" /\ x.e = 0

\* unary minus
Neg(x) ==
    IF x.k \in {"fin", "inf", "pi", "E"} THEN [x EXCEPT !.neg = ~x.neg] ELSE x

\* x < 0 and x === 0 of the source
Less0(x) == \/ x.k \in {"inf", "pi", "E"} /\ x.neg
            \/ x.k = "fin" /\ x.neg /\ x.m # 0
Falsy(x) == x.k = "nan" \/ IsZero(x)

\* IEEE-754 addition
Add(a, b) ==
    IF a.k = "out" \/ b.k = "out" THEN Out
    ELSE IF a.k = "nan" \/ b.k = "nan" THEN NaN
    ELSE IF a.k = "inf" /\ b.k = "inf" THEN (IF a.neg = b.neg THEN a ELSE NaN)
    ELSE IF a.k = "inf" THEN a
    ELSE IF b.k = "inf" THEN b
    ELSE IF IsZero(a) /\ IsZero(b) THEN Num("fin", a.neg /\ b.neg, 0, 0)
    ELSE IF IsZero(a) THEN b
    ELSE IF IsZero(b) THEN a
    ELSE IF ~(Dyadic(a) /\ Dyadic(b)) THEN Out
    ELSE LET e == IF a.e > b.e THEN a.e ELSE b.e
             sa == (IF a.neg THEN -1 ELSE 1) * a.m * Pow10(e - a.e)
             sb == (IF b.neg THEN -1 ELSE 1) * b.m * Pow10(e - b.e)
             s == sa + sb
         IN  IF s = 0 THEN Zero
             ELSE IF s < 0 THEN Fin(TRUE, -s, e) ELSE Fin(FALSE, s, e)

Sub(a, b) == Add(a, Neg(b))

\* IEEE-754 multiplication
Mul(a, b) ==
    IF a.k = "out" \/ b.k = "out" THEN Out
    ELSE IF a.k = "nan" \/ b.k = "nan" THEN NaN
    ELSE IF a.k = "inf" \/ b.k = "inf"
         THEN (IF IsZero(a) \/ IsZero(b) THEN NaN ELSE Inf(a.neg # b.neg))
    ELSE IF IsZero(a) \/ IsZero(b) THEN Num("fin", a.neg # b.neg, 0, 0)
    ELSE IF ~(Dyadic(a) /\ Dyadic(b)) THEN Out
    ELSE Fin(a.neg # b.neg, a.m * b.m, a.e + b.e)

\* IEEE-754 division
Div(a, b) ==
    IF a.k = "out" \/ b.k = "out" THEN Out
    ELSE IF a.k = "nan" \/ b.k = "nan" THEN NaN
    ELSE IF a.k = "inf" THEN (IF b.k = "inf" THEN NaN ELSE Inf(a.neg # b.neg))
    ELSE IF b.k = "inf" THEN Num("fin", a.neg # b.neg, 0, 0)
    ELSE IF IsZero(b) THEN
         (IF IsZero(a) THEN NaN ELSE Inf(a.neg # b.neg))
    ELSE IF IsZero(a) THEN Num("fin", a.neg # b.neg, 0, 0)
    ELSE IF ~(Dyadic(a) /\ Dyadic(b)) THEN Out
    ELSE LET n0 == a.m * Pow10(b.e)
             d0 == b.m * Pow10(a.e)
             g == Gcd(n0, d0)
             n == n0 \div g
             d == d0 \div g
             ks == {k \in 0..MaxScale : Pow10(k) % d = 0}
         IN  IF ks = {} THEN Out
             ELSE LET k == CHOOSE j \in ks : \A i \in ks : j <= i
                      f == Pow10(k) \div d
                  IN  IF n > MaxMantissa \div f THEN Out
                      ELSE Fin(a.neg # b.neg, n * f, k)

\* the remainder of JavaScript's %, sign of the dividend
Rem(a, b) ==
    IF a.k = "out" \/ b.k = "out" THEN Out
    ELSE IF a.k = "nan" \/ b.k = "nan" \/ a.k = "inf" \/ IsZero(b) THEN NaN
    ELSE IF b.k = "inf" \/ IsZero(a) THEN a
    ELSE IF ~(Dyadic(a) /\ Dyadic(b)) THEN Out
    ELSE LET e == IF a.e > b.e THEN a.e ELSE b.e
             ma == a.m * Pow10(e - a.e)
             mb == b.m * Pow10(e - b.e)
         IN  Fin(a.neg, ma % mb, e)

\* Math.pow for an integral exponent; other exponents are not modelled
RECURSIVE PowNat(_, _)
PowNat(a, n) == IF n = 0 THEN One ELSE Mul(PowNat(a, n - 1), a)

Pow(a, b) ==
    IF a.k = "out" \/ b.k = "out" THEN Out
    ELSE IF IsZero(b) THEN One
    ELSE IF a.k = "nan" \/ b.k = "nan" THEN NaN
    ELSE IF ~IsInteger(b) \/ b.m > 12 \/ a.k \in {"pi", "E"} THEN Out
    ELSE IF b.neg THEN Div(One, PowNat(a, b.m))
    ELSE PowNat(a, b.m)

\* Math.floor
Floor(x) ==
    IF x.k = "pi" THEN Num("fin", x.neg, IF x.neg THEN 4 ELSE 3, 0)
    ELSE IF x.k = "E" THEN Num("fin", x.neg, IF x.neg THEN 3 ELSE 2, 0)
    ELSE IF x.k # "fin" \/ x.e = 0 THEN x
    ELSE LET q == x.m \div Pow10(x.e)
         IN  IF x.neg THEN Fin(TRUE, q + 1, 0) ELSE Fin(FALSE, q, 0)

RECURSIVE Isqrt(_, _)
Isqrt(n, r) == IF r * r >= n THEN r ELSE Isqrt(n, r + 1)

\* Math.sqrt, exact roots only
Sqrt(x) ==
    IF x.k \in {"out", "pi", "E"} THEN Out
    ELSE IF x.k = "nan" THEN NaN
    ELSE IF IsZero(x) THEN x
    ELSE IF Less0(x) THEN NaN
    ELSE IF x.k = "inf" THEN x
    ELSE IF ~Dyadic(x) \/ x.e % 2 = 1 THEN Out
    ELSE LET r == Isqrt(x.m, 0)
         IN  IF r * r = x.m THEN Fin(FALSE, r, x.e \div 2) ELSE Out

\* Math.sin / Math.tan of a value already converted to radians: only the
\* arguments with an exact result are modelled
SinTan(x) ==
    IF x.k \in {"nan", "inf"} THEN NaN
    ELSE IF IsZero(x) THEN x
    ELSE Out

Cos(x) ==
    IF x.k \in {"nan", "inf"} THEN NaN
    ELSE IF IsZero(x) THEN One
    ELSE Out

\* Math.log; Math.log10 is exact on the powers of ten
LogCommon(x, exact) ==
    IF x.k = "out" THEN Out
    ELSE IF x.k = "nan" THEN NaN
    ELSE IF IsZero(x) THEN Inf(TRUE)
    ELSE IF Less0(x) THEN NaN
    ELSE IF x.k = "inf" THEN x
    ELSE exact

Ln(x) == LogCommon(x, IF x = One THEN Zero ELSE IF x = MathE THEN One ELSE Out)

Log10(x) ==
    LogCommon(x, IF x.k = "fin" /\ x.e = 0 /\ \E n \in 0..4 : x.m = Pow10(n)
                 THEN Fin(FALSE, CHOOSE n \in 0..4 : x.m = Pow10(n), 0)
                 ELSE Out)

\* value * Math.PI / 180
ToRadians(x) ==
    IF x.k \in {"nan", "inf"} \/ IsZero(x) THEN x ELSE Out

\* ------------------------------------------------------------------ text
DigitChars == <<"0", "1", "2", "3", "4", "5", "6", "7", "8", "9">>
DigitValue == [c \in {DigitChars[i] : i \in 1..10} |->
                 (CHOOSE i \in 1..10 : DigitChars[i] = c) - 1]
IsDigit(c) == c \in DOMAIN DigitValue
DigitVal(c) == DigitValue[c]

NaNText == <<"N", "a", "N">>
InfinityText == <<"I", "n", "f", "i", "n", "i", "t", "y">>
\* String(Math.PI) = "3.141592653589793", String(Math.E) = "2.718281828459045"
PiText == <<"3", ".", "1", "4", "1", "5", "9", "2", "6", "5", "3", "5", "8",
            "9", "7", "9", "3">>
EText == <<"2", ".", "7", "1", "8", "2", "8", "1", "8", "2", "8", "4", "5",
           "9", "0", "4", "5">>

RECURSIVE NatText(_)
NatText(n) ==
    IF n < 10 THEN <<DigitChars[n + 1]>>
    ELSE NatText(n \div 10) \o <<DigitChars[(n % 10) + 1]>>

RECURSIVE PadLeft(_, _)
PadLeft(s, n) == IF Len(s) >= n THEN s ELSE PadLeft(<<"0">> \o s, n)

\* String(x), Number::toString of the language: "NaN", "Infinity", "0" for
\* both zeros, else the shortest decimal form
String(x) ==
    IF x.k = "nan" THEN NaNText
    ELSE IF IsZero(x) THEN <<"0">>
    ELSE (IF x.neg THEN <<"-">> ELSE <<>>) \o
         (CASE x.k = "inf" -> InfinityText
            [] x.k = "pi" -> PiText
            [] x.k = "E" -> EText
            [] x.k = "fin" ->
                 IF x.e = 0 THEN NatText(x.m)
                 ELSE LET ds == PadLeft(NatText(x.m), x.e + 1)
                          n == Len(ds)
                      IN  SubSeq(ds, 1, n - x.e) \o <<".">> \o
                          SubSeq(ds, n - x.e + 1, n))

\* number of digits of s from position i on
RECURSIVE DigitRun(_, _)
DigitRun(s, i) ==
    IF i <= Len(s) /\ IsDigit(s[i]) THEN 1 + DigitRun(s, i + 1) ELSE 0

RECURSIVE DigitsNat(_, _, _)
DigitsNat(s, i, n) ==
    IF n = 0 THEN 0
    ELSE 10 * DigitsNat(s, i, n - 1) + DigitVal(s[i + n - 1])

\* parseFloat(s): the longest prefix of s that is a decimal literal (sign,
\* "Infinity" or digits with at most one point), NaN when there is none.
\* An exponent part cannot occur: no text of the model contains "e".
parseFloat(s) ==
    LET signed == Len(s) > 0 /\ s[1] \in {"-", "+"}
        neg == Len(s) > 0 /\ s[1] = "-"
        p == IF signed THEN 2 ELSE 1
        ni == DigitRun(s, p)
        point == p + ni <= Len(s) /\ s[p + ni] = "."
        nf == IF point THEN DigitRun(s, p + ni + 1) ELSE 0
        lit == SubSeq(s, p, p + ni + (IF point THEN nf + 1 ELSE 0) - 1)
    IN  IF Len(s) >= p + 7 /\ SubSeq(s, p, p + 7) = InfinityText THEN Inf(neg)
        ELSE IF ni + nf = 0 THEN NaN
        ELSE IF lit = PiText THEN Num("pi", neg, 0, 0)
        ELSE IF lit = EText THEN Num("E", neg, 0, 0)
        ELSE IF ni + nf > 9 THEN Out
        ELSE Fin(neg, DigitsNat(s, p, ni) * Pow10(nf)
                      + DigitsNat(s, p + ni + 1, nf), nf)

\* ----------------------------------------------------------------- state
VARIABLES
    display,            \* useState("0"): the text shown
    previousValue,      \* useState<number | null>(null)
    operation,          \* useState<string | null>(null)
    waitingForOperand,  \* useState(false)
    memory,             \* useState(0)
    history,            \* useState<CalculationHistory[]>([]), newest first
    angleMode,          \* useState('deg')
    calculations,       \* the "calculations" table, in creation order
    authUser,           \* what getAuthUserId(ctx) returns for this session
    inflight,           \* saveCalculation calls sent and not yet answered
    calls,              \* every addToHistory call so far, in call order
    settled,            \* the answered calls, in the order they were answered,
                        \* each with its outcome (ok: stored, else rejected)
    uncaught,           \* the exception that escaped an engine handler
    script,             \* the keys pressed since the first mount, while
                        \* they form a tracked sequence
    nkeys               \* number of events so far (exploration budget)

engine == <<display, previousValue, operation, waitingForOperand, memory,
            history, angleMode>>
server == <<calculations, authUser>>
ghost == <<calls, settled, uncaught, script, nkeys>>
vars == <<engine, server, inflight, ghost>>

NoOp == "null"
NoUser == "null"
Users == {"u1", "u2"}
NoError == "none"
RangeError == "RangeError"

DigitKeys == {"0", "1", "2", "3", "5", "7"}
EntryKeys == DigitKeys \cup {"."}
Operators == {"+", "-", "*", "/", "^", "mod"}
ScientificOps == {"sin", "cos", "tan", "log", "ln", "sqrt", "x2", "x3",
                  "1/x", "!", "pi", "e"}

\* ------------------------------------------------- exploration bookkeeping
\* The key sequences followed beyond MaxKeys: operand entry (up to MaxEntry
\* keys), operand op operand [op operand] =, and operand MS operand M+ M+;
\* in the last two every operand has 1..MaxOperand keys and the sequence
\* can be completed within MaxScript keys.  Four more continue these:
\* operand <- ... <- (shape "erase"), operand op operand = = ("twice"),
\* operand MS operand C ("clear") and operand op [operand] CE operand =
\* ("cleared").  script holds the keys, the shape they have so far, the
\* number of non-entry keys among them and the number of entry keys since
\* the last of those.
Track(keys, shape, nsep, run) ==
    [keys |-> keys, shape |-> shape, nsep |-> nsep, run |-> run]
Fresh == Track(<<>>, "entry", 0, 0)
Dead == Track(<<>>, "dead", 0, 0)

Follows(key) ==
    LET n == Len(script.keys)
        operand == script.run >= 1 /\ script.run <= MaxOperand
    IN  CASE key \in EntryKeys ->
               \/ script.shape = "entry" /\ n < MaxEntry
               \/ /\ script.shape = "binary"
                  /\ script.keys[n] # "="
                  /\ script.run < MaxOperand
                  /\ n + 2 <= MaxScript
               \/ /\ script.shape = "memory"
                  /\ script.nsep = 1
                  /\ script.run < MaxOperand
                  /\ n + 3 <= MaxScript
               \/ /\ script.shape = "cleared"
                  /\ script.keys[n] # "="
                  /\ script.run < MaxOperand
                  /\ n + 2 <= MaxScript
          [] key \in Operators ->
               /\ \/ script.shape = "entry"
                  \/ script.shape = "binary" /\ script.nsep = 1
               /\ operand
               /\ n + 3 <= MaxScript
          [] key = "=" ->
               \/ script.shape \in {"binary", "cleared"} /\ operand
                  /\ n + 1 <= MaxScript
               \/ script.shape = "binary" /\ script.nsep = 2
                  /\ script.keys[n] = "=" /\ n + 1 <= MaxScript
          [] key = "MS" ->
               script.shape = "entry" /\ operand /\ n + 4 <= MaxScript
          [] key = "M+" ->
               /\ script.shape = "memory"
               /\ \/ script.nsep = 1 /\ operand /\ n + 2 <= MaxScript
                  \/ script.nsep = 2 /\ n + 1 <= MaxScript
          [] key = "back" ->
               \/ script.shape = "entry" /\ operand /\ n + 1 <= MaxScript
               \/ script.shape = "erase" /\ n + 1 <= MaxScript
          [] key = "C" ->
               /\ script.shape = "memory" /\ script.nsep = 1
               /\ operand /\ n + 1 <= MaxScript
          [] key = "CE" ->
               /\ script.shape = "binary" /\ script.nsep = 1
               /\ n + 3 <= MaxScript
          [] OTHER -> FALSE

Followed(key) ==
    Track(Append(script.keys, key),
          IF key \in Operators THEN "binary"
          ELSE IF key = "=" THEN
               IF script.shape = "cleared" THEN "cleared"
               ELSE IF script.run = 0 THEN "twice" ELSE "binary"
          ELSE IF key \in {"MS", "M+"} THEN "memory"
          ELSE IF key = "back" THEN "erase"
          ELSE IF key = "C" THEN "clear"
          ELSE IF key = "CE" THEN "cleared"
          ELSE script.shape,
          IF key \in EntryKeys THEN script.nsep ELSE script.nsep + 1,
          IF key \in EntryKeys THEN script.run + 1 ELSE 0)

\* a handler may run while the budget lasts or a tracked sequence continues
MayPress(key) == nkeys < MaxKeys \/ Follows(key)

Pressed(key) ==
    /\ script' = IF Follows(key) THEN Followed(key) ELSE Dead
    /\ nkeys' = IF nkeys < MaxKeys THEN nkeys + 1 ELSE nkeys

\* ---------------------------------------------------------------- engine
Init ==
    /\ display = <<"0">>
    /\ previousValue = Null
    /\ operation = NoOp
    /\ waitingForOperand = FALSE
    /\ memory = Zero
    /\ history = <<>>
    /\ angleMode = "deg"
    /\ calculations = <<>>
    /\ authUser = "u1"
    /\ inflight = {}
    /\ calls = <<>>
    /\ settled = <<>>
    /\ uncaught = NoError
    /\ script = Fresh
    /\ nkeys = 0

\* (mutant) the new digit goes in front of the text
inputNumberTextPrepends(text, waiting, num) ==
    IF waiting THEN <<num>>
    ELSE IF text = <<"0">> THEN <<num>> ELSE <<num>> \o text

\* the text inputNumber leaves in display
inputNumberText(text, waiting, num) ==
    IF waiting THEN <<num>>
    ELSE IF text = <<"0">> THEN <<num>> ELSE Append(text, num)

inputNumber(num) ==
    /\ MayPress(num)
    /\ Len(inputNumberText(display, waitingForOperand, num)) <= MaxDisplayLen
    /\ display' = inputNumberText(display, waitingForOperand, num)
    /\ waitingForOperand' = FALSE
    /\ Pressed(num)
    /\ UNCHANGED <<previousValue, operation, memory, history, angleMode,
                   server, inflight, calls, settled, uncaught>>

\* (mutant) the point is appended without looking for an earlier one
inputDecimalTextAlways(text, waiting) ==
    IF waiting THEN <<"0", ".">> ELSE Append(text, ".")

\* the text inputDecimal leaves in display
inputDecimalText(text, waiting) ==
    IF waiting THEN <<"0", ".">>
    ELSE IF \A i \in 1..Len(text) : text[i] # "." THEN Append(text, ".")
    ELSE text

inputDecimal ==
    /\ MayPress(".")
    /\ Len(inputDecimalText(display, waitingForOperand)) <= MaxDisplayLen
    /\ display' = inputDecimalText(display, waitingForOperand)
    /\ waitingForOperand' = FALSE
    /\ Pressed(".")
    /\ UNCHANGED <<previousValue, operation, memory, history, angleMode,
                   server, inflight, calls, settled, uncaught>>

\* (mutant) clear also resets the memory register
clearResetsMemory ==
    /\ MayPress("C")
    /\ display' = <<"0">>
    /\ previousValue' = Null
    /\ operation' = NoOp
    /\ waitingForOperand' = FALSE
    /\ memory' = Zero
    /\ Pressed("C")
    /\ UNCHANGED <<history, angleMode, server, inflight, calls, settled,
                   uncaught>>

\* (mutant) clear forgets setOperation(null)
clearKeepsOperation ==
    /\ MayPress("C")
    /\ display' = <<"0">>
    /\ previousValue' = Null
    /\ waitingForOperand' = FALSE
    /\ Pressed("C")
    /\ UNCHANGED <<operation, memory, history, angleMode, server, inflight,
                   calls, settled, uncaught>>

clear ==
    /\ MayPress("C")
    /\ display' = <<"0">>
    /\ previousValue' = Null
    /\ operation' = NoOp
    /\ waitingForOperand' = FALSE
    /\ Pressed("C")
    /\ UNCHANGED <<memory, history, angleMode, server, inflight, calls,
                   settled, uncaught>>

\* (mutant) clearEntry also drops the staged operation
clearEntryDropsStaged ==
    /\ MayPress("CE")
    /\ display' = <<"0">>
    /\ previousValue' = Null
    /\ operation' = NoOp
    /\ Pressed("CE")
    /\ UNCHANGED <<waitingForOperand, memory, history, angleMode, server,
                   inflight, calls, settled, uncaught>>

clearEntry ==
    /\ MayPress("CE")
    /\ display' = <<"0">>
    /\ Pressed("CE")
    /\ UNCHANGED <<previousValue, operation, waitingForOperand, memory,
                   history, angleMode, server, inflight, calls, settled,
                   uncaught>>

\* (mutant) the divide case without its test of the divisor
calculateNoZeroGuard(firstValue, secondValue, op) ==
    CASE op = "+" -> Add(firstValue, secondValue)
      [] op = "-" -> Sub(firstValue, secondValue)
      [] op = "*" -> Mul(firstValue, secondValue)
      [] op = "/" -> Div(firstValue, secondValue)
      [] op = "^" -> Pow(firstValue, secondValue)
      [] op = "mod" -> Rem(firstValue, secondValue)
      [] OTHER -> secondValue

calculate(firstValue, secondValue, op) ==
    CASE op = "+" -> Add(firstValue, secondValue)
      [] op = "-" -> Sub(firstValue, secondValue)
      [] op = "*" -> Mul(firstValue, secondValue)
      [] op = "/" -> IF ~IsZero(secondValue)
                     THEN Div(firstValue, secondValue) ELSE Zero
      [] op = "^" -> Pow(firstValue, secondValue)
      [] op = "mod" -> Rem(firstValue, secondValue)
      [] OTHER -> secondValue

\* (mutant) the staged value is dropped
OrZeroAlways(x) == Zero

\* previousValue || 0
OrZero(x) == IF Falsy(x) THEN Zero ELSE x

performOperation(nextOperation) ==
    LET inputValue == parseFloat(display)
        currentValue == OrZero(previousValue)
        newValue == calculate(currentValue, inputValue, operation)
    IN  /\ MayPress(nextOperation)
        /\ inputValue # Out
        /\ IF previousValue = Null
           THEN previousValue' = inputValue /\ display' = display
           ELSE IF operation # NoOp
           THEN /\ newValue # Out
                /\ display' = String(newValue)
                /\ previousValue' = newValue
           ELSE UNCHANGED <<display, previousValue>>
        /\ waitingForOperand' = TRUE
        /\ operation' = nextOperation
        /\ Pressed(nextOperation)
        /\ UNCHANGED <<memory, history, angleMode, server, inflight, calls,
                       settled, uncaught>>

\* the endless recursion of factorial ends in "RangeError: Maximum call
\* stack size exceeded"
Throws == Num("throw", FALSE, 0, 0)

RECURSIVE factorialZeroIsZero(_)
RECURSIVE factorial(_)
\* (mutant) only n === 1 ends the recursion with 1
factorialZeroIsZero(n) ==
    IF Less0(n) \/ IsZero(n) THEN Zero
    ELSE IF n = One THEN One
    ELSE IF n.k \in {"nan", "inf"} THEN Throws
    ELSE IF n.k # "fin" \/ n.m > 20 THEN Out
    ELSE Mul(n, factorialZeroIsZero(Sub(n, One)))

\* factorial(n): NaN and Infinity pass both tests and n - 1 is n again, so
\* the recursion never reaches a base case.  Arguments above 20 are
\* outside the modelled domain.
factorial(n) ==
    IF Less0(n) THEN Zero
    ELSE IF IsZero(n) \/ n = One THEN One
    ELSE IF n.k \in {"nan", "inf"} THEN Throws
    ELSE IF n.k # "fin" \/ n.m > 20 THEN Out
    ELSE Mul(n, factorial(Sub(n, One)))

\* the angle handed to Math.sin / cos / tan
Angle(value) == IF angleMode = "deg" THEN ToRadians(value) ELSE value
AngleUnit == IF angleMode = "deg" THEN <<"deg)">> ELSE <<" rad)">>

\* result and expression of the switch of performScientificOperation
ScientificResult(op, value) ==
    CASE op = "sin" -> SinTan(Angle(value))
      [] op = "cos" -> Cos(Angle(value))
      [] op = "tan" -> SinTan(Angle(value))
      [] op = "log" -> Log10(value)
      [] op = "ln" -> Ln(value)
      [] op = "sqrt" -> Sqrt(value)
      [] op = "x2" -> Mul(value, value)
      [] op = "x3" -> Mul(Mul(value, value), value)
      [] op = "1/x" -> Div(One, value)
      [] op = "!" -> factorial(Floor(value))
      [] op = "pi" -> MathPI
      [] op = "e" -> MathE

ScientificExpression(op, value) ==
    CASE op \in {"sin", "cos", "tan"} ->
             <<op, "(">> \o String(value) \o AngleUnit
      [] op = "log" -> <<"log(">> \o String(value) \o <<")">>
      [] op = "ln" -> <<"ln(">> \o String(value) \o <<")">>
      [] op = "sqrt" -> <<"sqrt(">> \o String(value) \o <<")">>
      [] op = "x2" -> <<"(">> \o String(value) \o <<")^2">>
      [] op = "x3" -> <<"(">> \o String(value) \o <<")^3">>
      [] op = "1/x" -> <<"1/(">> \o String(value) \o <<")">>
      [] op = "!" -> String(Floor(value)) \o <<"!">>
      [] op = "pi" -> <<"pi">>
      [] op = "e" -> <<"e">>

\* setHistory(prev => [newEntry, ...prev.slice(0, 9)]); the timestamp of the
\* entry (Date.now()) is not modelled
AddEntry(prev, entry) ==
    <<entry>> \o SubSeq(prev, 1, IF Len(prev) < 9 THEN Len(prev) ELSE 9)

\* (mutant) the call waits until no earlier append is in flight
addToHistoryAwaitsEarlier(expression, result) ==
    /\ inflight = {}
    /\ Len(calls) < MaxCalls
    /\ history' = AddEntry(history, [expression |-> expression,
                                      result |-> result])
    /\ calls' = Append(calls, [expression |-> expression, result |-> result])
    /\ inflight' = inflight \cup {Len(calls) + 1}

\* addToHistory up to its await: the local entry and the mutation sent
addToHistory(expression, result) ==
    /\ Len(calls) < MaxCalls
    /\ history' = AddEntry(history, [expression |-> expression,
                                      result |-> result])
    /\ calls' = Append(calls, [expression |-> expression, result |-> result])
    /\ inflight' = inflight \cup {Len(calls) + 1}

performScientificOperation(op) ==
    LET value == parseFloat(display)
        result == ScientificResult(op, value)
    IN  /\ MayPress(op)
        /\ value # Out
        /\ result # Out
        /\ IF result = Throws
           THEN /\ uncaught' = RangeError
                /\ UNCHANGED <<display, waitingForOperand, history, calls,
                               inflight>>
           ELSE /\ display' = String(result)
                /\ addToHistory(ScientificExpression(op, value),
                                String(result))
                /\ waitingForOperand' = TRUE
                /\ UNCHANGED uncaught
        /\ Pressed(op)
        /\ UNCHANGED <<previousValue, operation, memory, angleMode, server,
                       settled>>

\* (mutant) the staged value and the operator stay after the evaluation
performEqualsKeepsStaged ==
    LET inputValue == parseFloat(display)
        newValue == calculate(previousValue, inputValue, operation)
        expression == String(previousValue) \o <<" ", operation, " ">>
                        \o String(inputValue)
    IN  /\ MayPress("=")
        /\ inputValue # Out
        /\ IF previousValue # Null /\ operation # NoOp
           THEN /\ newValue # Out
                /\ display' = String(newValue)
                /\ addToHistory(expression, String(newValue))
                /\ waitingForOperand' = TRUE
                /\ UNCHANGED <<previousValue, operation>>
           ELSE UNCHANGED <<display, previousValue, operation,
                            waitingForOperand, history, calls, inflight>>
        /\ Pressed("=")
        /\ UNCHANGED <<memory, angleMode, server, settled, uncaught>>

performEquals ==
    LET inputValue == parseFloat(display)
        newValue == calculate(previousValue, inputValue, operation)
        expression == String(previousValue) \o <<" ", operation, " ">>
                        \o String(inputValue)
    IN  /\ MayPress("=")
        /\ inputValue # Out
        /\ IF previousValue # Null /\ operation # NoOp
           THEN /\ newValue # Out
                /\ display' = String(newValue)
                /\ addToHistory(expression, String(newValue))
                /\ previousValue' = Null
                /\ operation' = NoOp
                /\ waitingForOperand' = TRUE
           ELSE UNCHANGED <<display, previousValue, operation,
                            waitingForOperand, history, calls, inflight>>
        /\ Pressed("=")
        /\ UNCHANGED <<memory, angleMode, server, settled, uncaught>>

memoryStore ==
    /\ MayPress("MS")
    /\ parseFloat(display) # Out
    /\ memory' = parseFloat(display)
    /\ Pressed("MS")
    /\ UNCHANGED <<display, previousValue, operation, waitingForOperand,
                   history, angleMode, server, inflight, calls, settled,
                   uncaught>>

memoryRecall ==
    /\ MayPress("MR")
    /\ display' = String(memory)
    /\ waitingForOperand' = TRUE
    /\ Pressed("MR")
    /\ UNCHANGED <<previousValue, operation, memory, history, angleMode,
                   server, inflight, calls, settled, uncaught>>

memoryClear ==
    /\ MayPress("MC")
    /\ memory' = Zero
    /\ Pressed("MC")
    /\ UNCHANGED <<display, previousValue, operation, waitingForOperand,
                   history, angleMode, server, inflight, calls, settled,
                   uncaught>>

\* (mutant) M+ overwrites the register
memoryAddOverwrites ==
    /\ MayPress("M+")
    /\ parseFloat(display) # Out
    /\ memory' = parseFloat(display)
    /\ Pressed("M+")
    /\ UNCHANGED <<display, previousValue, operation, waitingForOperand,
                   history, angleMode, server, inflight, calls, settled,
                   uncaught>>

memoryAdd ==
    /\ MayPress("M+")
    /\ Add(memory, parseFloat(display)) # Out
    /\ memory' = Add(memory, parseFloat(display))
    /\ Pressed("M+")
    /\ UNCHANGED <<display, previousValue, operation, waitingForOperand,
                   history, angleMode, server, inflight, calls, settled,
                   uncaught>>

\* (mutant) the plain slice, without the "0" that replaces an empty text
backspaceTextMayBeEmpty(text) ==
    IF Len(text) = 0 THEN <<>> ELSE SubSeq(text, 1, Len(text) - 1)

\* display.slice(0, -1) || "0"
backspaceText(text) ==
    IF Len(text) <= 1 THEN <<"0">> ELSE SubSeq(text, 1, Len(text) - 1)

backspace ==
    /\ MayPress("back")
    /\ display' = backspaceText(display)
    /\ Pressed("back")
    /\ UNCHANGED <<previousValue, operation, waitingForOperand, memory,
                   history, angleMode, server, inflight, calls, settled,
                   uncaught>>

\* String(-parseFloat(display))
negate ==
    /\ MayPress("neg")
    /\ parseFloat(display) # Out
    /\ display' = String(Neg(parseFloat(display)))
    /\ Pressed("neg")
    /\ UNCHANGED <<previousValue, operation, waitingForOperand, memory,
                   history, angleMode, server, inflight, calls, settled,
                   uncaught>>

toggleAngleMode ==
    /\ MayPress("angle")
    /\ angleMode' = IF angleMode = "deg" THEN "rad" ELSE "deg"
    /\ Pressed("angle")
    /\ UNCHANGED <<display, previousValue, operation, waitingForOperand,
                   memory, history, server, inflight, calls, settled,
                   uncaught>>

\* (mutant) Clear also empties the stored table
clearHistoryDeletesStored ==
    /\ MayPress("HC")
    /\ history' = <<>>
    /\ calculations' = <<>>
    /\ Pressed("HC")
    /\ UNCHANGED <<display, previousValue, operation, waitingForOperand,
                   memory, angleMode, authUser, inflight, calls, settled,
                   uncaught>>

\* setHistory([]): the local entries; the list shown comes from getHistory
clearHistory ==
    /\ MayPress("HC")
    /\ history' = <<>>
    /\ Pressed("HC")
    /\ UNCHANGED <<display, previousValue, operation, waitingForOperand,
                   memory, angleMode, server, inflight, calls, settled,
                   uncaught>>

\* ---------------------------------------------------------------- server
\* (mutant) the handler without its test of userId
saveCalculationNoAuthCheck(c) ==
    /\ c \in inflight
    /\ inflight' = inflight \ {c}
    /\ settled' = Append(settled, [call |-> c, ok |-> TRUE])
    /\ calculations' = Append(calculations,
                [userId |-> authUser,
                 expression |-> calls[c].expression,
                 result |-> calls[c].result,
                 _creationTime |-> Len(calculations) + 1])
    /\ UNCHANGED <<engine, authUser, calls, uncaught, script, nkeys>>

\* the handler of saveCalculation, run for one call in flight: it throws
\* for a session without a user, else inserts one document, which the
\* database stamps with its creation order (_creationTime).  The client's
\* catch logs the rejection and changes nothing.
saveCalculation(c) ==
    /\ c \in inflight
    /\ inflight' = inflight \ {c}
    /\ settled' = Append(settled, [call |-> c, ok |-> authUser # NoUser])
    /\ IF authUser = NoUser
       THEN UNCHANGED calculations
       ELSE calculations' = Append(calculations,
                [userId |-> authUser,
                 expression |-> calls[c].expression,
                 result |-> calls[c].result,
                 _creationTime |-> Len(calculations) + 1])
    /\ UNCHANGED <<engine, authUser, calls, uncaught, script, nkeys>>

RECURSIVE SelectUser(_, _)
SelectUser(table, userId) ==
    IF table = <<>> THEN <<>>
    ELSE IF Head(table).userId = userId
         THEN <<Head(table)>> \o SelectUser(Tail(table), userId)
         ELSE SelectUser(Tail(table), userId)

Reverse(s) == [i \in 1..Len(s) |-> s[Len(s) + 1 - i]]

Take(s, n) == SubSeq(s, 1, IF Len(s) < n THEN Len(s) ELSE n)

HistoryLimit == 20

\* (mutant) order("asc")
getHistoryOldestFirst(table, userId) ==
    IF userId = NoUser THEN <<>>
    ELSE Take(SelectUser(table, userId), HistoryLimit)

\* (mutant) the query without withIndex("by_user", ...)
getHistoryAnyUser(table, userId) ==
    IF userId = NoUser THEN <<>>
    ELSE Take(Reverse(table), HistoryLimit)

\* the handler of getHistory: by_user index, order desc, take 20
getHistory(table, userId) ==
    IF userId = NoUser THEN <<>>
    ELSE Take(Reverse(SelectUser(table, userId)), HistoryLimit)

\* useQuery(api.calculator.getHistory) || []
calculationHistory == getHistory(calculations, authUser)

\* the session loses its user (sign-out or expiry seen by the server first)
SessionExpires ==
    /\ nkeys < MaxKeys
    /\ authUser # NoUser
    /\ authUser' = NoUser
    /\ script' = Dead
    /\ nkeys' = nkeys + 1
    /\ UNCHANGED <<engine, calculations, inflight, calls, settled, uncaught>>

\* a user signs in: <Authenticated> mounts a new Calculator
SignIn(u) ==
    /\ nkeys < MaxKeys
    /\ authUser = NoUser
    /\ authUser' = u
    /\ display' = <<"0">>
    /\ previousValue' = Null
    /\ operation' = NoOp
    /\ waitingForOperand' = FALSE
    /\ memory' = Zero
    /\ history' = <<>>
    /\ angleMode' = "deg"
    /\ script' = Dead
    /\ nkeys' = nkeys + 1
    /\ UNCHANGED <<calculations, inflight, calls, settled, uncaught>>

Next ==
    \/ \E num \in DigitKeys : inputNumber(num)
    \/ inputDecimal
    \/ clear
    \/ clearEntry
    \/ \E op \in Operators : performOperation(op)
    \/ \E op \in ScientificOps : performScientificOperation(op)
    \/ performEquals
    \/ memoryStore
    \/ memoryRecall
    \/ memoryClear
    \/ memoryAdd
    \/ backspace
    \/ negate
    \/ toggleAngleMode
    \/ clearHistory
    \/ \E c \in 1..MaxCalls : saveCalculation(c)
    \/ SessionExpires
    \/ \E u \in Users : SignIn(u)

Spec == Init /\ [][Next]_vars

\* The calculations table as earlier sessions left it: EarlierRows documents
\* in creation order, every fourth one of user u2, each the record of a
\* press of the pi key.
EarlierCalculations ==
    [i \in 1..EarlierRows |->
        [userId |-> IF i % 4 = 0 THEN "u2" ELSE "u1",
         expression |-> ScientificExpression("pi", Zero),
         result |-> String(MathPI),
         _creationTime |-> i]]

\* a Calculator mounted over a table that already holds documents
InitStored ==
    /\ display = <<"0">>
    /\ previousValue = Null
    /\ operation = NoOp
    /\ waitingForOperand = FALSE
    /\ memory = Zero
    /\ history = <<>>
    /\ angleMode = "deg"
    /\ calculations = EarlierCalculations
    /\ authUser = "u1"
    /\ inflight = {}
    /\ calls = <<>>
    /\ settled = <<>>
    /\ uncaught = NoError
    /\ script = Fresh
    /\ nkeys = 0

SpecStored == InitStored /\ [][Next]_vars

\* ------------------------------------------------------------ properties
\* the entry keys at the front of a key sequence: one typed operand
RECURSIVE EntryPrefix(_)
EntryPrefix(s) ==
    IF s = <<>> \/ Head(s) \notin EntryKeys THEN <<>>
    ELSE <<Head(s)>> \o EntryPrefix(Tail(s))

After(s, n) == SubSeq(s, n + 1, Len(s))

\* a decimal string: at least one digit and at most one point
ValidDecimal(d) ==
    /\ \E i \in 1..Len(d) : IsDigit(d[i])
    /\ Cardinality({i \in 1..Len(d) : d[i] = "."}) <= 1

LastKey == script.keys[Len(script.keys)]

\* the tracked sequence d1 op1 d2 sep2 d3 ..., taken apart
Typed1 == EntryPrefix(script.keys)
Op1 == script.keys[Len(Typed1) + 1]
Rest1 == After(script.keys, Len(Typed1) + 1)
Typed2 == EntryPrefix(Rest1)
Op2 == Rest1[Len(Typed2) + 1]
Rest2 == After(Rest1, Len(Typed2) + 1)
Typed3 == EntryPrefix(Rest2)

\* C1: from the fresh state, entering d1, pressing an operator, entering d2
\* and pressing = leaves display = String(calculate(parse(d1), parse(d2),
\* op)), no staged value, no pending operator and waitingForOperand set.
C1_EqualsShowsResult ==
    (script.shape = "binary" /\ script.nsep = 2 /\ LastKey = "="
        /\ ValidDecimal(Typed1) /\ ValidDecimal(Typed2))
    => /\ display = String(calculate(parseFloat(Typed1), parseFloat(Typed2),
                                     Op1))
       /\ previousValue = Null
       /\ operation = NoOp
       /\ waitingForOperand

C1_Witness ==
    /\ script.keys = <<"1", "2", "/", "5", "=">>
    /\ display = <<"2", ".", "4">>
    /\ waitingForOperand

\* C2: chained entry a op1 b op2 c = evaluates left to right: right after
\* op2 the display shows calculate(a, b, op1), which is staged with op2
\* pending, and = ends with calculate(calculate(a, b, op1), c, op2);
\* 7 + 3 * 2 = ends with "20".
C2_ChainedLeftToRight ==
    /\ (script.shape = "binary" /\ script.nsep = 2 /\ LastKey \in Operators
           /\ ValidDecimal(Typed1) /\ ValidDecimal(Typed2))
       => LET first == calculate(parseFloat(Typed1), parseFloat(Typed2), Op1)
          IN  /\ display = String(first)
              /\ previousValue = first
              /\ operation = Op2
    /\ (script.shape = "binary" /\ script.nsep = 3 /\ LastKey = "="
           /\ ValidDecimal(Typed1) /\ ValidDecimal(Typed2)
           /\ ValidDecimal(Typed3))
       => LET first == calculate(parseFloat(Typed1), parseFloat(Typed2), Op1)
          IN  display = String(calculate(first, parseFloat(Typed3), Op2))
    /\ script.keys = <<"7", "+", "3", "*", "2", "=">> => display = <<"2", "0">>

C2_Witness ==
    /\ script.keys = <<"7", "+", "3", "*", "2", "=">>
    /\ display = <<"2", "0">>
    /\ previousValue = Null

\* the documents of a query result without their owner
Records(rows) ==
    [i \in 1..Len(rows) |->
        [expression |-> rows[i].expression, result |-> rows[i].result]]

\* every call so far has been stored, all of them for user u, who is the
\* session's user
AllStoredFor(u) ==
    /\ authUser = u
    /\ inflight = {}
    /\ calls # <<>>
    /\ Len(calls) <= HistoryLimit
    /\ Len(calculations) = Len(calls)
    /\ \A i \in 1..Len(calculations) : calculations[i].userId = u

C4_Unauthenticated ==
    /\ [](authUser = NoUser => calculationHistory = <<>>)
    /\ [][(authUser = NoUser /\ \E c \in inflight : saveCalculation(c))
          => /\ calculations' = calculations
             /\ ~settled'[Len(settled')].ok
             /\ UNCHANGED engine]_vars

C4_Witness ==
    /\ authUser = NoUser
    /\ settled # <<>>
    /\ ~settled[Len(settled)].ok
    /\ calculations = <<>>
    /\ display = PiText
    /\ calculationHistory = <<>>

\* C5 as stated: display is always an optional minus, digits with at least
\* one digit, and at most one decimal point.
ValidNumeral(text) ==
    LET body == IF text # <<>> /\ text[1] = "-" THEN Tail(text) ELSE text
    IN  /\ \A i \in 1..Len(body) : IsDigit(body[i]) \/ body[i] = "."
        /\ ValidDecimal(body)

C5_DisplayIsNumeral == ValidNumeral(display)

\* C6: a pending operator is present only with a staged value; the code
\* sets and clears the two in the same handler, so between handlers they
\* are present together or absent together.
C6_OperatorWithStagedValue ==
    (operation = NoOp) <=> (previousValue = Null)

C6_Witness ==
    /\ script.keys = <<"5", "+">>
    /\ operation = "+"
    /\ previousValue = Fin(FALSE, 5, 0)

\* C7 as stated: no engine operation throws.
C7_NothingThrown == uncaught = NoError

\* C8: calculate(x, 0, divide) = 0 for every x, and whenever equals or a
\* chained operator evaluates a pending divide with a zero display, the
\* display becomes "0".
C8_DivideByZeroIsZero ==
    /\ [](\A x \in {previousValue, memory, parseFloat(display)} :
            x.k \notin {"null", "out"}
            => /\ calculate(x, Zero, "/") = Zero
               /\ calculate(x, Neg(Zero), "/") = Zero)
    /\ [][(/\ operation = "/"
           /\ previousValue # Null
           /\ IsZero(parseFloat(display))
           /\ \/ performEquals
              \/ \E op \in Operators : performOperation(op))
          => display' = <<"0">>]_vars

C8_Witness ==
    /\ script.keys = <<"5", "/", "0", "=">>
    /\ display = <<"0">>
    /\ waitingForOperand

\* C9 as stated: storing 10, entering 5 and adding to memory twice leaves
\* 15 in the register.
MemoryKeys == <<"1", "0", "MS", "5", "M+", "M+">>

C9_MemoryIs15 == script.keys = MemoryKeys => memory = Fin(FALSE, 15, 0)

\* C9 amended: memoryStore does not start a new operand, so the 5 extends
\* the display to 105 and the two memoryAdd calls leave 10 + 105 + 105 = 220.
C9_MemoryIs220 ==
    script.keys = MemoryKeys
    => memory = Fin(FALSE, 220, 0) /\ display = <<"1", "0", "5">>

C9_Witness == script.keys = MemoryKeys /\ memory = Fin(FALSE, 220, 0)

\* C10: digit and point entry appends: 1 2 3 gives "123", then . 5 gives
\* "123.5"; a point on a display that has one (not waiting) changes
\* nothing; a display of "0" is replaced by the digit.
HasPoint(text) == \E i \in 1..Len(text) : text[i] = "."

C10_EntryAppends ==
    /\ [](/\ script.keys = <<"1", "2", "3">> => display = <<"1", "2", "3">>
          /\ script.keys \in {<<"1", "2", "3", ".", "5">>,
                              <<"1", "2", "3", ".", "5", ".">>}
               => display = <<"1", "2", "3", ".", "5">>)
    /\ [][(inputDecimal /\ ~waitingForOperand /\ HasPoint(display))
          => display' = display]_vars
    /\ [][\A num \in DigitKeys :
            (inputNumber(num) /\ ~waitingForOperand)
            => display' = IF display = <<"0">> THEN <<num>>
                          ELSE Append(display, num)]_vars

C10_Witness ==
    /\ script.keys = <<"1", "2", "3", ".", "5", ".">>
    /\ display = <<"1", "2", "3", ".", "5">>
    /\ ~waitingForOperand


\* ---- C11: backspace removes the last character of display and leaves "0"
\* when nothing would remain (display "5" becomes "0"); display is the empty
\* text in no reachable state
C11_BackspaceNeverEmpty ==
    /\ [](display # <<>>)
    /\ [][backspace =>
            /\ Len(display) >= 2 =>
                 display' = SubSeq(display, 1, Len(display) - 1)
            /\ Len(display) <= 1 => display' = <<"0">>]_vars
    /\ [](script.keys = <<"5", "back">> => display = <<"0">>)
    /\ [](script.keys = <<"1", "2", "back">> => display = <<"1">>)

\* "5" was typed and erased
C11_Witness ==
    /\ script.keys = <<"5", "back">>
    /\ display = <<"0">>


\* the positions in the table of the documents of user u
OwnedBy(u) == {i \in 1..Len(calculations) : calculations[i].userId = u}

\* ---- C12: for an authenticated owner listRecent returns at most 20
\* records, every one of them a stored record of that owner, newest first
\* by creation order, and they are the owner's most recently created
\* records (all of them when the owner has at most 20)
C12_ListRecent ==
    authUser # NoUser =>
        LET h == calculationHistory
            owned == OwnedBy(authUser)
        IN  /\ Len(h) <= HistoryLimit
            /\ Len(h) = IF Cardinality(owned) < HistoryLimit
                        THEN Cardinality(owned) ELSE HistoryLimit
            /\ \A i \in 1..Len(h) :
                  /\ h[i].userId = authUser
                  /\ h[i]._creationTime \in owned
                  /\ h[i] = calculations[h[i]._creationTime]
            /\ \A i \in 1..Len(h) - 1 :
                  h[i]._creationTime > h[i + 1]._creationTime
            /\ \A j \in owned :
                  \/ \E i \in 1..Len(h) : h[i]._creationTime = j
                  \/ j < h[Len(h)]._creationTime

\* u1 owns more than 20 documents, u2 owns some, and the record of a
\* calculation of this session is listed first
C12_Witness ==
    /\ authUser = "u1"
    /\ Cardinality(OwnedBy("u1")) > HistoryLimit
    /\ OwnedBy("u2") # {}
    /\ Len(calculations) > EarlierRows
    /\ Len(calculationHistory) = HistoryLimit
    /\ calculationHistory[1]._creationTime = Len(calculations)
    /\ calculationHistory[1].expression = calls[settled[Len(settled)].call].expression


\* n! over the naturals
RECURSIVE IntegerFactorial(_)
IntegerFactorial(n) == IF n = 0 THEN 1 ELSE n * IntegerFactorial(n - 1)

\* the integer part of a finite value that is not negative
IntegerPart(x) ==
    CASE x.k = "pi" -> 3
      [] x.k = "E" -> 2
      [] OTHER -> x.m \div Pow10(x.e)

\* ---- C13: the factorial key on a display value V shows the integer
\* factorial of floor(V) for a finite V >= 0 and 0 for a negative V, and
\* records it: 5 gives 120, 0 gives 1, -3 gives 0
C13_Factorial ==
    [][performScientificOperation("!") =>
        LET V == parseFloat(display)
        IN  /\ (V.k \in {"fin", "pi", "E"} /\ ~Less0(V)) =>
                 /\ display' = NatText(IntegerFactorial(IntegerPart(V)))
                 /\ calls' = Append(calls,
                        [expression |-> NatText(IntegerPart(V)) \o <<"!">>,
                         result |-> display'])
            /\ Less0(V) => display' = <<"0">>
            /\ display = <<"5">> => display' = <<"1", "2", "0">>
            /\ display = <<"0">> => display' = <<"1">>
            /\ display = <<"-", "3">> => display' = <<"0">>
            /\ display = <<"0", ".", "5">> => display' = <<"1">>]_vars

\* the factorial key was pressed on the display 5
C13_Witness ==
    /\ display = <<"1", "2", "0">>
    /\ waitingForOperand
    /\ calls = <<[expression |-> <<"5", "!">>, result |-> display]>>

\* the factorial key was pressed on the display -3
C13_WitnessNegative ==
    /\ display = <<"0">>
    /\ waitingForOperand
    /\ calls = <<[expression |-> <<"-", "3", "!">>, result |-> display]>>


\* an engine operation that emits a record can run while an append is in
\* flight (for a display and a result within the modelled numbers)
NotBlocked ==
    (/\ inflight # {}
     /\ nkeys < MaxKeys
     /\ Len(calls) < MaxCalls
     /\ parseFloat(display) # Out) =>
        /\ ENABLED performScientificOperation("pi")
        /\ (/\ previousValue # Null
            /\ operation # NoOp
            /\ calculate(previousValue, parseFloat(display), operation) # Out)
           => ENABLED performEquals

\* ---- C14: what equals() and applyUnary() write to display,
\* previousValue, pendingOperator and waitingForNewOperand depends on the
\* engine's state alone, the answer to an append (stored or rejected)
\* changes nothing of the engine, and an append in flight blocks no engine
\* operation
C14_EngineIndependentOfPersistence ==
    /\ [][(\E c \in 1..MaxCalls : saveCalculation(c)) =>
            UNCHANGED engine]_vars
    /\ [][(performEquals /\ previousValue # Null /\ operation # NoOp) =>
            /\ display' = String(calculate(previousValue,
                                  parseFloat(display), operation))
            /\ previousValue' = Null
            /\ operation' = NoOp
            /\ waitingForOperand']_vars
    /\ [][\A op \in ScientificOps :
            (/\ performScientificOperation(op)
             /\ ScientificResult(op, parseFloat(display)) # Throws) =>
                /\ display' = String(ScientificResult(op,
                                                      parseFloat(display)))
                /\ waitingForOperand'
                /\ UNCHANGED <<previousValue, operation>>]_vars
    /\ []NotBlocked

\* the first append was rejected, the display still shows the result of a
\* second operation, whose append is in flight
C14_Witness ==
    /\ Len(calls) = 2
    /\ settled = <<[call |-> 1, ok |-> FALSE]>>
    /\ inflight = {2}
    /\ history = <<calls[2], calls[1]>>
    /\ display = calls[2].result
    /\ waitingForOperand


\* ---- C15: the store is append-only: a stored record keeps its owner,
\* expression and result and is never removed, by no step, the Clear of the
\* local history included; the table only grows
C15_AppendOnly ==
    /\ [][\/ calculations' = calculations
          \/ /\ Len(calculations') > Len(calculations)
             /\ \A i \in 1..Len(calculations) :
                   calculations'[i] = calculations[i]]_vars
    /\ [][clearHistory =>
            /\ calculations' = calculations
            /\ calculationHistory' = calculationHistory]_vars

\* Clear was pressed after a calculation; its record is stored and listed
C15_Witness ==
    /\ nkeys = 2
    /\ history = <<>>
    /\ Len(calls) = 1
    /\ Len(calculations) = 1
    /\ calculations[1].expression = calls[1].expression
    /\ calculationHistory[1].result = calls[1].result


\* ---- C16: equals() without a staged value or without a pending operator
\* changes nothing of display, previousValue, pendingOperator,
\* waitingForNewOperand and memory and emits no record; after d1 op d2 = =
\* exactly one record has been emitted and the display still shows the
\* result of the first =
C16_EqualsWithoutStagedIsNoOp ==
    /\ [][(performEquals /\ (previousValue = Null \/ operation = NoOp)) =>
            UNCHANGED <<display, previousValue, operation,
                        waitingForOperand, memory, history, angleMode,
                        calls, inflight, calculations>>]_vars
    /\ []((script.shape = "twice"
             /\ ValidDecimal(Typed1) /\ ValidDecimal(Typed2)) =>
            /\ Len(calls) = 1
            /\ display = String(calculate(parseFloat(Typed1),
                                          parseFloat(Typed2), Op1))
            /\ calls[1].result = display
            /\ previousValue = Null
            /\ operation = NoOp
            /\ waitingForOperand)

\* = was pressed twice after 5 + 3
C16_Witness ==
    /\ script.keys = <<"5", "+", "3", "=", "=">>
    /\ display = <<"8">>
    /\ Len(calls) = 1
    /\ previousValue = Null


\* ---- C17: clear() sets display to "0", removes the staged value and the
\* pending operator and resets waitingForNewOperand; it leaves memory,
\* angleMode and the stored history as they are and emits no record
C17_ClearResetsEntryOnly ==
    /\ [][clear =>
            /\ display' = <<"0">>
            /\ previousValue' = Null
            /\ operation' = NoOp
            /\ ~waitingForOperand'
            /\ UNCHANGED <<memory, angleMode, calculations, calls, inflight>>
            /\ calculationHistory' = calculationHistory]_vars
    /\ []((script.shape = "clear" /\ ValidDecimal(Typed1)) =>
            /\ memory = parseFloat(Typed1)
            /\ display = <<"0">>
            /\ previousValue = Null
            /\ operation = NoOp
            /\ ~waitingForOperand
            /\ calls = <<>>)

\* C was pressed after 5 MS 7: the register still holds 5
C17_Witness ==
    /\ script.keys = <<"5", "MS", "7", "C">>
    /\ memory = Fin(FALSE, 5, 0)
    /\ display = <<"0">>
    /\ angleMode = "deg"


\* ---- C18: clearEntry() changes display only, to "0": the staged value,
\* the pending operator, waitingForNewOperand, memory and angleMode stay,
\* so after d1 op [d2] CE d3 = the display shows calculate(d1, d3, op);
\* 7 + 5 CE 3 = ends with "10"
C18_ClearEntryKeepsStaged ==
    /\ [][clearEntry =>
            /\ display' = <<"0">>
            /\ UNCHANGED <<previousValue, operation, waitingForOperand,
                           memory, angleMode, history, calls, inflight,
                           calculations>>]_vars
    /\ []((script.shape = "cleared" /\ LastKey = "CE"
             /\ ValidDecimal(Typed1)) =>
            /\ display = <<"0">>
            /\ previousValue = parseFloat(Typed1)
            /\ operation = Op1)
    /\ []((script.shape = "cleared" /\ LastKey = "="
             /\ ValidDecimal(Typed1) /\ ValidDecimal(Typed3)) =>
            /\ Op2 = "CE"
            /\ display = String(calculate(parseFloat(Typed1),
                                          parseFloat(Typed3), Op1))
            /\ Len(calls) = 1
            /\ calls[1].result = display)
    /\ [](script.keys = <<"7", "+", "5", "CE", "3", "=">> =>
            display = <<"1", "0">>)

\* CE replaced the second operand 5 of 7 + 5 by 3
C18_Witness ==
    /\ script.keys = <<"7", "+", "5", "CE", "3", "=">>
    /\ display = <<"1", "0">>
    /\ previousValue = Null


\* ---- C19 as stated: applyUnary(fn), for every supported fn, sets display
\* to the stringified result, sets waitingForNewOperand, emits one record
\* and leaves previousValue, pendingOperator and memory unchanged; an
\* equals() that follows with an operation pending evaluates it with the
\* unary result as second operand
C19_UnaryShowsResult ==
    /\ [][\A op \in ScientificOps : performScientificOperation(op) =>
            LET result == ScientificResult(op, parseFloat(display))
            IN  /\ result # Throws
                /\ display' = String(result)
                /\ waitingForOperand'
                /\ calls' = Append(calls,
                     [expression |->
                         ScientificExpression(op, parseFloat(display)),
                      result |-> String(result)])
                /\ UNCHANGED <<previousValue, operation, memory>>]_vars
    /\ [][(/\ performEquals
           /\ previousValue # Null
           /\ operation # NoOp
           /\ waitingForOperand
           /\ history # <<>>
           /\ display = history[1].result) =>
            display' = String(calculate(previousValue,
                          parseFloat(history[1].result), operation))]_vars


\* what a chained performOperation writes to display in the current state
\* (previousValue and operation present)
ChainedValue ==
    calculate(OrZero(previousValue), parseFloat(display), operation)

\* what performEquals writes to display in the current state
EqualsValue == calculate(previousValue, parseFloat(display), operation)

\* ---- C20 as stated: in every reachable state with a staged value and a
\* pending operator, the value a chained setOperator writes to display is
\* the value equals() would write, calculate(previousValue, parse(display),
\* pendingOperator), also when the staged value is 0 or NaN
C20_ChainedAgreesWithEquals ==
    /\ [](/\ previousValue # Null
          /\ operation # NoOp
          /\ parseFloat(display) # Out
          /\ ChainedValue # Out
          /\ EqualsValue # Out
          => String(ChainedValue) = String(EqualsValue))
    /\ [][\A op \in Operators :
            (performOperation(op) /\ previousValue # Null
               /\ operation # NoOp)
            => display' = String(ChainedValue)]_vars
    /\ [][(performEquals /\ previousValue # Null /\ operation # NoOp)
            => display' = String(EqualsValue)]_vars

====
